---- MODULE Spec2Model ----
(***************************************************************************)
(* State-machine model of src/script.js: the carousel's shared motion      *)
(* state, its input listeners (wheel, touch, mouse, resize) and the        *)
(* gsap.ticker frame callback.                                             *)
(*                                                                         *)
(* JavaScript Numbers are modelled as exact rationals [num, den] in lowest *)
(* terms (den > 0), so that 0.91, 0.1, 0.14, 0.8 and 0.03 are the decimal  *)
(* fractions the source writes.                                            *)
(***************************************************************************)
EXTENDS Integers, Sequences, FiniteSets, TLC

(* ---------------------------- bounds ---------------------------------- *)

\* at most this many input events (wheel, touch, mouse, resize) per run
MaxEvents == 3
\* at most this many frame ticks per run
MaxTicks == 2
\* at most this many original cards in the markup
MaxOriginals == 1
\* performance.now() stays at or below this many milliseconds
MaxClock == 500
\* the drags before the first frame leave position within 50 * this of 0
MaxDragSteps == 100
\* cards in the markup of the pages the card loop is examined on
MaxVisualOriginals == 2
\* wrap is called directly on 40 * k for k up to this in magnitude
MaxWrapSteps == 100

\* clientX values delivered with touch and mouse events
ClientXs == {100, 200}
\* deltaY values delivered with wheel events
DeltaYs == {100, -400}
\* milliseconds that performance.now() advances between two readings
ElapsedMs == {0, 50, 500}
\* window.innerWidth values at which the cards are laid out with a width
InnerWidths == {800, 1200}
\* window.innerWidth values at which they are not: at 320 the cards are not
\* displayed, at 480 they are collapsed and keep a negative right margin
CollapsedWidths == {320, 480}
LayoutWidths == InnerWidths \cup CollapsedWidths
\* cards[0].offsetWidth + parseFloat(marginRight) as the page's style sheet
\* lays the first card out at each window width: 0 + 0, 0 - 16, 620 + 20,
\* 220 + 20.  Nothing in the script keeps the sum positive.
CardWidthAt(iw) ==
  IF iw < 400 THEN 0
  ELSE IF iw < 600 THEN -16
  ELSE IF iw < 1000 THEN 640
  ELSE 240

(* ------------------------ rational arithmetic -------------------------- *)

Abs(a) == IF a < 0 THEN -a ELSE a

RECURSIVE GCD(_, _)
GCD(a, b) == IF b = 0 THEN a ELSE GCD(b, a % b)

\* the rational n/d (d # 0) in lowest terms with a positive denominator
Rat(n, d) ==
  LET g == GCD(Abs(n), Abs(d))
      s == IF d < 0 THEN -1 ELSE 1
  IN  [num |-> s * (n \div g), den |-> s * (d \div g)]

RatInt(n) == [num |-> n, den |-> 1]

Zero == RatInt(0)

\* least common denominator of two rationals
LCD(a, b) == (a.den \div GCD(a.den, b.den)) * b.den

\* NaN, which the script gets from x % 0, and which every operation on it
\* yields again
NaN == [num |-> 0, den |-> 0]
IsNaN(a) == a.den = 0

RatAdd(a, b) ==
  IF IsNaN(a) \/ IsNaN(b) THEN NaN
  ELSE LET l == LCD(a, b)
       IN  Rat(a.num * (l \div a.den) + b.num * (l \div b.den), l)

RatNeg(a) == [num |-> -a.num, den |-> a.den]

RatSub(a, b) == RatAdd(a, RatNeg(b))

RatMul(a, b) ==
  IF IsNaN(a) \/ IsNaN(b) THEN NaN
  ELSE LET g1 == GCD(Abs(a.num), b.den)
           g2 == GCD(Abs(b.num), a.den)
           h1 == IF g1 = 0 THEN 1 ELSE g1
           h2 == IF g2 = 0 THEN 1 ELSE g2
       IN  Rat((a.num \div h1) * (b.num \div h2),
               (a.den \div h2) * (b.den \div h1))

\* a / b for b # 0
RatDiv(a, b) == RatMul(a, Rat(b.den, b.num))

\* a < b, false when either is NaN
RatLt(a, b) ==
  /\ ~IsNaN(a)
  /\ ~IsNaN(b)
  /\ LET l == LCD(a, b)
     IN  a.num * (l \div a.den) < b.num * (l \div b.den)

\* a <= b, false when either is NaN
RatLe(a, b) == ~IsNaN(a) /\ ~IsNaN(b) /\ ~RatLt(b, a)

RatAbs(a) == [num |-> Abs(a.num), den |-> a.den]

RatSign(a) == IF a.num > 0 THEN 1 ELSE IF a.num < 0 THEN -1 ELSE 0

\* Math.min / Math.max
MathMin(a, b) ==
  IF IsNaN(a) \/ IsNaN(b) THEN NaN ELSE IF RatLt(b, a) THEN b ELSE a
MathMax(a, b) ==
  IF IsNaN(a) \/ IsNaN(b) THEN NaN ELSE IF RatLt(a, b) THEN b ELSE a

\* integer part of a rational, rounded toward zero
Trunc(a) == IF a.num >= 0 THEN a.num \div a.den ELSE -((-a.num) \div a.den)

\* the JavaScript % operator: the remainder has the sign of the dividend,
\* and x % 0 is NaN
JsRem(x, m) ==
  IF IsNaN(x) \/ IsNaN(m) \/ m.num = 0 THEN NaN
  ELSE RatSub(x, RatMul(m, RatInt(Trunc(RatDiv(x, m)))))

(* --------------------------- constants --------------------------------- *)

\* mutant: the decay factor mistyped as 1.09
friction_Amplifying == Rat(109, 100)
friction == Rat(91, 100)
wheelMultiplier == Rat(1, 10)
lerpSpeed == Rat(14, 100)
dragFactor == Rat(8, 10)
momentumFactor == Rat(3, 100)
maxVelocity == 30
cloneCount == 3

\* touchStartX === null
Null == <<>>
Some(x) == <<x>>

(* ----------------------------- state ----------------------------------- *)

VARIABLES
  cardCount,        \* cards.length after ensureClones
  innerWidth,       \* window.innerWidth
  itemW,
  totalWidth,
  visibleCenterX,
  position,
  velocity,
  smoothPos,
  touchStartX,
  isDragging,
  lastX,
  dragStartTime,
  dragStartX,
  draggingClass,    \* viewport.classList contains 'dragging'
  clock,            \* last value performance.now() returned (ms)
  frame,            \* x of every card as set by the last frame tick
  ev,               \* history: the last handler run and its input
  events,           \* history: number of input events so far
  ticks,            \* history: number of frame ticks so far
  touchOriginX,     \* history: clientX of the last touchstart
  touchMoved,       \* history: position change made by touchmoves since then
  dragMoved,        \* history: position change made by mousemoves since the press
  sinceInput,       \* history: velocity/position left by the last input, ticks since
  track,            \* track.children after ensureClones: the original each card copies
  started,          \* the script ran to its end: listeners and ticker registered
  styles,           \* per card, what the last frame painted: the values its
                    \* properties were computed from (CardStyle gives them)
  pressed,          \* history: a mousedown was delivered and no mouseup since
  placed            \* the outcome of a direct call of wrap and the placement

geometry == <<cardCount, innerWidth, itemW, totalWidth, visibleCenterX>>
motion == <<position, velocity, smoothPos>>
touch == <<touchStartX>>
drag == <<isDragging, lastX, dragStartTime, dragStartX, draggingClass>>
history == <<ev, events, ticks, touchOriginX, touchMoved, dragMoved, sinceInput,
             pressed>>
startup == <<track, started>>
vars == <<geometry, motion, touch, drag, clock, frame, history, startup, styles,
          placed>>

(* ------------------------- pure functions ------------------------------ *)

\* the original cards of the markup, in order
Originals(originalCount) == [k \in 1..originalCount |-> k]

RECURSIVE Repeat(_, _)
Repeat(originals, times) ==
  IF times = 0 THEN <<>> ELSE Repeat(originals, times - 1) \o originals

\* ensureClones: the track cleared, then cloneCount copies of the originals
ensureClones(originals) == Repeat(originals, cloneCount)

\* cards.length after ensureClones
ClonedCount(originalCount) == Len(ensureClones(Originals(originalCount)))

\* mutant: getItemWidth returns a number for a missing cards[0]
ScriptCompletes_Always(n) == TRUE
\* getItemWidth() at start-up throws on cards[0] === undefined, which ends the
\* script before any listener or the ticker callback is registered
ScriptCompletes(n) == n > 0

\* getItemWidth(): the laid-out width of cards[0] plus its right margin
getItemWidth(iw) == CardWidthAt(iw)

\* mutant: the track one card short
TrackWidth_OneShort(w, n) == w * (n - 1)
\* totalWidth = itemW * cards.length
TrackWidth(w, n) == w * n

\* mutant: the centre taken as the whole window width
CenterOf_Whole(w) == RatInt(w)
\* window.innerWidth / 2
CenterOf(w) == Rat(w, 2)

\* mutant: the wheel impulse clamped to +-maxVelocity
WheelVelocity_Clamped(v, deltaY) ==
  LET w == RatAdd(v, RatMul(RatInt(deltaY), Rat(1, 10)))
  IN  MathMax(MathMin(w, RatInt(30)), RatInt(-30))
\* velocity += e.deltaY * wheelMultiplier
WheelVelocity(v, deltaY) == RatAdd(v, RatMul(RatInt(deltaY), wheelMultiplier))

\* mutant: position += dx
TouchPosition_Added(p, dx) == RatAdd(p, RatInt(dx))
\* position -= dx (touchmove)
TouchPosition(p, dx) == RatSub(p, RatInt(dx))

\* mutant: position -= dx, the 0.8 factor dropped
DragPosition_Unscaled(p, dx) == RatSub(p, RatInt(dx))
\* position -= dx * 0.8 (mousemove)
DragPosition(p, dx) == RatSub(p, RatMul(RatInt(dx), dragFactor))

\* mutant: the press leaves velocity as it is
PressVelocity_Kept(v) == v
\* velocity = 0 (mousedown)
PressVelocity(v) == Zero

\* mutant: only the upper limit applied
ClampVelocity_UpperOnly(v) == MathMin(v, RatInt(30))
\* Math.max(Math.min(v, maxVelocity), -maxVelocity)
ClampVelocity(v) == MathMax(MathMin(v, RatInt(maxVelocity)), RatInt(-maxVelocity))

\* mutant: dt left in milliseconds
ElapsedSeconds_Millis(now, start) == RatInt(now - start)
\* dt = (performance.now() - dragStartTime) / 1000
ElapsedSeconds(now, start) == Rat(now - start, 1000)

\* v = -(dx / dt) * 0.03, clamped
ReleaseVelocity(dx, dt) ==
  ClampVelocity(RatMul(RatNeg(RatDiv(RatInt(dx), dt)), momentumFactor))

\* velocity after mouseup: assigned only when dt > 0
MouseUpVelocity(v, dx, dt) == IF RatLt(Zero, dt) THEN ReleaseVelocity(dx, dt) ELSE v

\* mutant: the isDragging test dropped from the integration
TickPosition_Always(p, v, dragging) == RatAdd(p, v)
\* the motion step of the frame callback: position += velocity
TickPosition(p, v, dragging) == IF ~dragging THEN RatAdd(p, v) ELSE p

\* mutant: the isDragging test dropped from the decay
TickVelocity_Always(v, dragging) == RatMul(v, Rat(91, 100))
\* mutant: velocity divided by friction instead of multiplied
TickVelocity_Divided(v, dragging) ==
  IF ~dragging THEN RatDiv(v, Rat(91, 100)) ELSE v
\* the motion step of the frame callback: velocity *= friction
TickVelocity(v, dragging) == IF ~dragging THEN RatMul(v, friction) ELSE v

\* mutant: the lerp factor mistyped as 1.4
Lerp_Overshoot(s, p) == RatAdd(s, RatMul(RatSub(p, s), Rat(14, 10)))
\* mutant: no smoothing, smoothPos = position
Lerp_Snap(s, p) == p
\* smoothPos += (position - smoothPos) * lerpSpeed
Lerp(s, p) == RatAdd(s, RatMul(RatSub(p, s), lerpSpeed))

\* mutant: a single remainder, x % totalWidth
wrap_SingleRem(x, tw) == JsRem(x, RatInt(tw))
\* wrap(x) = ((x % totalWidth) + totalWidth) % totalWidth
wrap(x, tw) == JsRem(RatAdd(JsRem(x, RatInt(tw)), RatInt(tw)), RatInt(tw))

\* baseX of card i (0-based)
BaseX(i, s, w, tw) == wrap(RatSub(RatInt(i * w), s), tw)

\* finalX = baseX - totalWidth / 2 + visibleCenterX
FinalX(i, s, w, tw, c) == RatAdd(RatSub(BaseX(i, s, w, tw), Rat(tw, 2)), c)

\* mutant: every card reads a smoothPos one handler step further on
Render_Torn(n, s, w, tw, c) ==
  [i \in 1..n |-> FinalX(i - 1, RatAdd(s, RatInt(i - 1)), w, tw, c)]
\* the card loop: x set on cards[0..n-1]
Render(n, s, w, tw, c) == [i \in 1..n |-> FinalX(i - 1, s, w, tw, c)]

(* the visual mapping of the card loop *)

\* gsap.utils.clamp(min, max, value)
clamp(min, max, value) == MathMax(min, MathMin(max, value))

\* gsap.utils.mapRange(inMin, inMax, outMin, outMax, value)
mapRange(inMin, inMax, outMin, outMax, value) ==
  RatAdd(outMin,
         RatMul(RatDiv(RatSub(value, inMin), RatSub(inMax, inMin)),
                RatSub(outMax, outMin)))

\* mutant: the ease-out half written with the wrong constant
easeScale_Overshoot(t) ==
  IF RatLt(t, Rat(1, 2))
    THEN RatMul(RatInt(2), RatMul(t, t))
    ELSE RatAdd(RatInt(1), RatMul(RatSub(RatInt(4), RatMul(RatInt(2), t)), t))
\* t < 0.5 ? 2 * t * t : -1 + (4 - 2 * t) * t
easeScale(t) ==
  IF RatLt(t, Rat(1, 2))
    THEN RatMul(RatInt(2), RatMul(t, t))
    ELSE RatAdd(RatInt(-1), RatMul(RatSub(RatInt(4), RatMul(RatInt(2), t)), t))

\* cardCenterX = finalX + itemW / 2
CardCenterX(finalX, w) == RatAdd(finalX, Rat(w, 2))

\* t = clamp(0, 1, dist / Math.max(window.innerWidth, 900))
NormalizedDistance(center, c, iw) ==
  clamp(Zero, RatInt(1),
        RatDiv(RatAbs(RatSub(center, c)), MathMax(RatInt(iw), RatInt(900))))

\* mutant: both rotations take the same sign
TiltSign_Same(center, c, leftSign) == IF RatLt(center, c) THEN 1 ELSE -1
\* (cardCenterX < visibleCenterX ? leftSign : -leftSign)
TiltSign(center, c, leftSign) == IF RatLt(center, c) THEN leftSign ELSE -leftSign

\* lines 153-168 for card i (0-based): what the loop body computes before
\* easing, and window.innerWidth as it reads it
CardPlacement(i, s, w, tw, c, iw) ==
  LET finalX == FinalX(i, s, w, tw, c)
  IN  [baseX |-> BaseX(i, s, w, tw),
       x |-> finalX,
       cardCenterX |-> CardCenterX(finalX, w),
       visibleCenterX |-> c,
       innerWidth |-> iw]

\* lines 165-216 for a placed card: the local t, the properties passed to
\* gsap.set and the target of the image's gsap.to
CardStyle(p) ==
  LET center == p.cardCenterX
      c == p.visibleCenterX
      t == easeScale(NormalizedDistance(center, c, p.innerWidth))
      off == RatSub(center, c)
      half == Rat(p.innerWidth, 2)
  IN  [t |-> t,
       x |-> p.x,
       y |-> mapRange(Zero, RatInt(1), Zero, RatInt(40), t),
       scale |-> mapRange(Zero, RatInt(1), RatInt(1), Rat(65, 100), t),
       rotationY |-> RatMul(mapRange(Zero, RatInt(1), Zero, RatInt(20), t),
                            RatInt(TiltSign(center, c, 1))),
       rotationX |-> RatMul(mapRange(Zero, RatInt(1), Zero, RatInt(6), t),
                            RatInt(TiltSign(center, c, -1))),
       z |-> mapRange(Zero, RatInt(1), RatInt(120), RatInt(-60), t),
       blur |-> mapRange(Zero, RatInt(1), Zero, RatInt(6), t),
       brightness |-> mapRange(Zero, RatInt(1), RatInt(1), Rat(6, 10), t),
       parallaxX |-> mapRange(RatNeg(half), half, RatInt(40), RatInt(-40), off),
       parallaxY |-> mapRange(RatNeg(half), half, RatInt(-10), RatInt(10), off)]

\* the card loop: every card painted.  A card's properties are kept as the
\* placement they are a function of: their exact values, squares of a
\* smoothPos that has been through friction and lerp, exceed TLC's integers
Paint(n, s, w, tw, c, iw) ==
  [i \in 1..n |-> CardPlacement(i - 1, s, w, tw, c, iw)]

(* ------------------------------ init ----------------------------------- *)

\* the state the script leaves behind, but for position, on a page whose
\* markup holds one of the given numbers of cards
StartUp(counts, widths) ==
  /\ \E n \in counts, iw \in widths :
       /\ track = ensureClones(Originals(n))
       /\ cardCount = ClonedCount(n)
       /\ started = ScriptCompletes(ClonedCount(n))
       /\ innerWidth = iw
       /\ IF ScriptCompletes(ClonedCount(n))
            THEN /\ itemW = getItemWidth(iw)
                 /\ totalWidth = TrackWidth(getItemWidth(iw), ClonedCount(n))
                 /\ visibleCenterX = CenterOf(iw)
            ELSE \* never assigned, and never read: no callback is registered
                 /\ itemW = 0
                 /\ totalWidth = 0
                 /\ visibleCenterX = Zero
  /\ styles = <<>>
  /\ placed = Null
  /\ pressed = FALSE
  /\ velocity = Zero
  /\ smoothPos = Zero
  /\ touchStartX = Null
  /\ isDragging = FALSE
  /\ lastX = 0
  /\ dragStartTime = 0
  /\ dragStartX = 0
  /\ draggingClass = FALSE
  /\ clock = 0
  /\ frame = <<>>
  /\ ev = [type |-> "init", x |-> 0]
  /\ events = 0
  /\ ticks = 0
  /\ touchOriginX = 0
  /\ touchMoved = Zero
  /\ dragMoved = Zero

Loaded == StartUp(0..MaxOriginals, InnerWidths)

Init ==
  /\ Loaded
  /\ position = Zero
  /\ sinceInput = [v0 |-> Zero, p0 |-> Zero, k |-> 0]

(* ----------------------------- actions --------------------------------- *)

\* history bookkeeping shared by the input handlers
Input(type, x) ==
  /\ started
  /\ events < MaxEvents
  /\ events' = events + 1
  /\ ev' = [type |-> type, x |-> x]
  /\ sinceInput' = [v0 |-> velocity', p0 |-> position', k |-> 0]
  /\ pressed' = IF type = "mousedown" THEN TRUE
                ELSE IF type = "mouseup" THEN FALSE ELSE pressed
  /\ UNCHANGED <<ticks, startup, styles, placed>>

Wheel(deltaY) ==
  /\ velocity' = WheelVelocity(velocity, deltaY)
  /\ UNCHANGED <<geometry, position, smoothPos, touch, drag, clock, frame,
                 touchOriginX, touchMoved, dragMoved>>
  /\ Input("wheel", deltaY)

TouchStart(x) ==
  /\ touchStartX' = Some(x)
  /\ touchOriginX' = x
  /\ touchMoved' = Zero
  /\ UNCHANGED <<geometry, motion, drag, clock, frame, dragMoved>>
  /\ Input("touchstart", x)

TouchMove(x) ==
  /\ IF touchStartX = Null
       THEN UNCHANGED <<position, touchStartX, touchMoved>>
       ELSE LET dx == x - touchStartX[1]
            IN  /\ position' = TouchPosition(position, dx)
                /\ touchStartX' = Some(x)
                /\ touchMoved' = RatAdd(touchMoved, RatSub(position', position))
  /\ UNCHANGED <<geometry, velocity, smoothPos, drag, clock, frame,
                 touchOriginX, dragMoved>>
  /\ Input("touchmove", x)

TouchEnd ==
  /\ touchStartX' = Null
  /\ touchOriginX' = 0
  /\ touchMoved' = Zero
  /\ UNCHANGED <<geometry, motion, drag, clock, frame, dragMoved>>
  /\ Input("touchend", 0)

MouseDown(x, now) ==
  /\ now <= MaxClock
  /\ isDragging' = TRUE
  /\ lastX' = x
  /\ dragStartX' = x
  /\ dragStartTime' = now
  /\ clock' = now
  /\ velocity' = PressVelocity(velocity)
  /\ draggingClass' = TRUE
  /\ dragMoved' = Zero
  /\ UNCHANGED <<geometry, position, smoothPos, touch, frame,
                 touchOriginX, touchMoved>>
  /\ Input("mousedown", x)

MouseUp(x, now) ==
  /\ now <= MaxClock
  /\ IF isDragging
       THEN /\ draggingClass' = FALSE
            /\ isDragging' = FALSE
            /\ clock' = now
            /\ velocity' = MouseUpVelocity(velocity, x - dragStartX,
                                           ElapsedSeconds(now, dragStartTime))
       ELSE /\ now = clock
            /\ UNCHANGED <<draggingClass, isDragging, clock, velocity>>
  /\ dragMoved' = Zero
  /\ UNCHANGED <<geometry, position, smoothPos, touch, lastX, dragStartTime,
                 dragStartX, frame, touchOriginX, touchMoved>>
  /\ Input("mouseup", x)

MouseMove(x) ==
  /\ IF ~isDragging
       THEN UNCHANGED <<position, lastX, dragMoved>>
       ELSE LET dx == x - lastX
            IN  /\ position' = DragPosition(position, dx)
                /\ lastX' = x
                /\ dragMoved' = RatAdd(dragMoved, RatSub(position', position))
  /\ UNCHANGED <<geometry, velocity, smoothPos, touch, isDragging,
                 dragStartTime, dragStartX, draggingClass, clock, frame,
                 touchOriginX, touchMoved>>
  /\ Input("mousemove", x)

Resize(iw) ==
  /\ innerWidth' = iw
  /\ itemW' = getItemWidth(iw)
  /\ totalWidth' = TrackWidth(getItemWidth(iw), cardCount)
  /\ visibleCenterX' = CenterOf(iw)
  /\ UNCHANGED <<cardCount, motion, touch, drag, clock, frame,
                 touchOriginX, touchMoved, dragMoved>>
  /\ Input("resize", iw)

\* the frame callback up to the x of every card
MotionAndPlacement ==
  /\ started
  /\ position' = TickPosition(position, velocity, isDragging)
  /\ velocity' = TickVelocity(velocity, isDragging)
  /\ smoothPos' = Lerp(smoothPos, position')
  /\ frame' = Render(cardCount, smoothPos', itemW, totalWidth, visibleCenterX)
  /\ ticks' = ticks + 1
  /\ ev' = [type |-> "tick", x |-> 0]
  /\ sinceInput' = [sinceInput EXCEPT !.k = @ + 1]
  /\ UNCHANGED <<geometry, touch, drag, clock, events,
                 touchOriginX, touchMoved, dragMoved, pressed, startup, placed>>

\* the frame callback: motion, smoothing, and every card placed and painted
Tick ==
  /\ ticks < MaxTicks
  /\ MotionAndPlacement
  /\ styles' = Paint(cardCount, smoothPos', itemW, totalWidth, visibleCenterX,
                     innerWidth)

Next ==
  \/ \E d \in DeltaYs : Wheel(d)
  \/ \E x \in ClientXs : TouchStart(x)
  \/ \E x \in ClientXs : TouchMove(x)
  \/ TouchEnd
  \/ \E x \in ClientXs, d \in ElapsedMs : MouseDown(x, clock + d)
  \/ \E x \in ClientXs, d \in ElapsedMs : MouseUp(x, clock + d)
  \/ \E x \in ClientXs : MouseMove(x)
  \/ \E iw \in InnerWidths : Resize(iw)
  \/ Tick

Spec == Init /\ [][Next]_vars

(* A second specification for the card loop.  It starts from the states a  *)
(* touch drag leaves behind (position a multiple of 50, everything else as *)
(* loaded) and runs frames and resizes.  Numbers are exact rationals where *)
(* the script has doubles, which agree up to rounding except where a       *)
(* rounded value falls on the other side of a jump: MaxDragSteps keeps     *)
(* 50 * j * 0.14 off the non-zero multiples of itemW, where wrap jumps.    *)

\* position = 50 * j for -MaxDragSteps <= j <= MaxDragSteps
InitVisual ==
  /\ StartUp(1..MaxVisualOriginals, InnerWidths)
  /\ \E j \in -MaxDragSteps..MaxDragSteps :
       /\ position = RatInt(50 * j)
       /\ sinceInput = [v0 |-> Zero, p0 |-> RatInt(50 * j), k |-> 0]

NextVisual ==
  \/ Tick
  \/ \E iw \in InnerWidths : Resize(iw)

SpecVisual == InitVisual /\ [][NextVisual]_vars

(* A third specification for wrap and the placement as pure functions:    *)
(* after start-up they are called directly on whole numbers, negative     *)
(* ones and multiples of totalWidth among them, on which the script's     *)
(* doubles are exact.                                                     *)

\* smoothPos values handed to the placement: the multiples of 40
WrapOffsets == {40 * k : k \in -MaxWrapSteps..MaxWrapSteps}

\* lines 153-159 called once for card i (0-based) with smoothPos = s
Place(i, s) ==
  /\ started
  /\ placed = Null
  /\ placed' = Some([input |-> RatSub(RatInt(i * itemW), RatInt(s)),
                     wrapped |-> wrap(RatSub(RatInt(i * itemW), RatInt(s)),
                                      totalWidth),
                     baseX |-> BaseX(i, RatInt(s), itemW, totalWidth),
                     x |-> FinalX(i, RatInt(s), itemW, totalWidth,
                                  visibleCenterX)])
  /\ UNCHANGED <<geometry, motion, touch, drag, clock, frame, history,
                 startup, styles>>

InitWrap ==
  /\ StartUp(1..MaxVisualOriginals, InnerWidths)
  /\ position = Zero
  /\ sinceInput = [v0 |-> Zero, p0 |-> Zero, k |-> 0]

NextWrap == \E i \in 0..(cardCount - 1), s \in WrapOffsets : Place(i, s)

SpecWrap == InitWrap /\ [][NextWrap]_vars

(* A fourth specification for the track geometry: the page is loaded and  *)
(* resized at every window width, those where the first card has no width *)
(* included, and frames run in between.                                   *)

InitLayout ==
  /\ StartUp(1..MaxVisualOriginals, LayoutWidths)
  /\ position = Zero
  /\ sinceInput = [v0 |-> Zero, p0 |-> Zero, k |-> 0]

NextLayout ==
  \/ Tick
  \/ \E iw \in LayoutWidths : Resize(iw)

SpecLayout == InitLayout /\ [][NextLayout]_vars


(* ======================= properties of the model ====================== *)

\* the step is a run of the frame callback
TickStep == ticks' = ticks + 1

\* the step is a run of the listener named type
Handled(type) == events' = events + 1 /\ ev'.type = type

\* -30 <= v <= 30
Within30(v) == -30 * v.den <= v.num /\ v.num <= 30 * v.den

\* a touch gesture is active: touchstart seen, no touchend since
TouchActive == touchStartX # Null

(* ------------------------------- C1 ----------------------------------- *)

\* C1 as claimed: no frame tick that runs while a mouse drag or a touch
\* gesture is active adds velocity to position or applies friction.
C1_AnyDragSuppresses ==
  [][(TickStep /\ (isDragging \/ TouchActive))
       => (position' = position /\ velocity' = velocity)]_vars

\* C1 as amended: only the mouse drag (isDragging) suppresses the motion
\* step.  A frame tick during a mouse drag leaves position and velocity
\* alone; while a mouse drag stays active position changes only in
\* mousemove and touchmove steps; a tick with no mouse drag active, also in
\* the middle of a touch gesture and right after a release, integrates
\* velocity into position and decays it.
C1_MouseDragSuppresses ==
  [][/\ (TickStep /\ isDragging)
          => (position' = position /\ velocity' = velocity)
     /\ (isDragging /\ isDragging' /\ position' # position)
          => (Handled("mousemove") \/ Handled("touchmove"))
     /\ (TickStep /\ ~isDragging)
          => /\ RatSub(position', position) = velocity
             /\ velocity' = RatMul(velocity, Rat(91, 100))]_vars

\* a frame tick ran during a mouse drag while velocity was not zero
C1_Witness ==
  /\ ev.type = "tick"
  /\ isDragging
  /\ velocity # Zero
  /\ position = sinceInput.p0

(* ------------------------------- C2 ----------------------------------- *)

\* C2 as claimed: after every mouse release that ends a drag velocity is
\* within [-30, 30], whatever the elapsed time.
C2_ReleaseAlwaysClamped ==
  [][(Handled("mouseup") /\ isDragging) => Within30(velocity')]_vars

\* C2 as amended: after every mouse release that ends a drag with positive
\* elapsed time velocity is within [-30, 30]; a release with zero elapsed
\* time leaves velocity as it was.
C2_ReleaseClampedWhenTimed ==
  [][(Handled("mouseup") /\ isDragging)
       => IF clock' > dragStartTime
            THEN Within30(velocity')
            ELSE velocity' = velocity]_vars

\* a release 50 ms after the press with dx = 100: the raw velocity -60 was
\* clamped to -30
C2_Witness ==
  /\ ev.type = "mouseup"
  /\ ~isDragging
  /\ clock - dragStartTime = 50
  /\ ev.x - dragStartX = 100
  /\ velocity = RatInt(-30)

(* ------------------------------- C3 ----------------------------------- *)

\* C3 as claimed: velocity is within [-30, 30] in every reachable state.
C3_VelocityBounded == Within30(velocity)

\* C3 as amended: only wheel events can take velocity outside [-30, 30]:
\* every other step (touch, mouse, resize, frame tick) leaves |velocity| at
\* most max(30, |velocity| before the step), and velocity starts at 0.
C3_BoundedButForWheel ==
  /\ (events = 0 /\ ticks = 0) => velocity = Zero
  /\ [][~Handled("wheel")
          => RatLe(RatAbs(velocity'), MathMax(RatInt(30), RatAbs(velocity)))]_vars

\* the clamped release velocity 30 after one decay step
C3_Witness ==
  /\ ev.type = "tick"
  /\ sinceInput.v0 = RatInt(30)
  /\ velocity = Rat(273, 10)

(* ------------------------------- C4 ----------------------------------- *)

\* C4: a frame tick during a mouse drag leaves position, velocity and every
\* input-side variable unchanged and moves only smoothPos (by lerp toward
\* position); a frame tick with no mouse drag active adds the velocity held
\* before the tick to position and multiplies velocity by 0.91.
C4_TickMotionStep ==
  [][TickStep
       => /\ isDragging
               => /\ position' = position
                  /\ velocity' = velocity
                  /\ smoothPos' =
                       RatAdd(smoothPos, RatMul(RatSub(position, smoothPos), Rat(14, 100)))
          /\ ~isDragging
               => /\ position' = RatAdd(position, velocity)
                  /\ velocity' = RatMul(velocity, Rat(91, 100))
          /\ UNCHANGED <<geometry, touch, drag, clock>>]_vars

\* a frame tick ran during a mouse drag, after a mousemove: position kept
\* the drag's value and smoothPos moved toward it
C4_Witness ==
  /\ ev.type = "tick"
  /\ isDragging
  /\ position = RatInt(-80)
  /\ smoothPos = Rat(-56, 5)
  /\ velocity = RatInt(10)

(* ------------------------------- C5 ----------------------------------- *)

\* clamp(-(dx / (ms / 1000)) * 0.03, -30, 30) = clamp(-30 * dx / ms, -30, 30)
ExitVelocity(dx, ms) ==
  IF -30 * dx > 30 * ms THEN RatInt(30)
  ELSE IF -30 * dx < -30 * ms THEN RatInt(-30)
  ELSE Rat(-30 * dx, ms)

\* C5: the press records its X and its time, no other step changes them,
\* and a release that ends a drag after a positive time assigns
\* clamp(-(dx / dt) * 0.03, -30, 30) to velocity, dx being release X minus
\* press X and dt the seconds since the press: the value is a function of
\* the press and the release alone.
C5_ReleaseVelocity ==
  [][/\ Handled("mousedown")
          => (dragStartX' = ev'.x /\ dragStartTime' = clock')
     /\ ~Handled("mousedown") => UNCHANGED <<dragStartX, dragStartTime>>
     /\ (Handled("mouseup") /\ isDragging /\ clock' > dragStartTime)
          => velocity' = ExitVelocity(ev'.x - dragStartX, clock' - dragStartTime)]_vars

\* press at X=100, a mousemove, release at X=200 after 0.5 s: velocity = -6
C5_Witness ==
  /\ ev = [type |-> "mouseup", x |-> 200]
  /\ dragStartX = 100
  /\ clock - dragStartTime = 500
  /\ position = RatInt(-80)
  /\ velocity = RatInt(-6)

(* ------------------------------- C6 ----------------------------------- *)

\* C6: every wheel event adds deltaY / 10 to velocity and changes no other
\* program variable, whatever the state it arrives in.
C6_WheelAddsImpulse ==
  [][Handled("wheel")
       => /\ velocity' = RatAdd(velocity, Rat(ev'.x, 10))
          /\ UNCHANGED <<position, smoothPos, geometry, touch, drag, clock, frame>>]_vars

\* a wheel event with deltaY = 100 arrived during a mouse drag and a touch
\* gesture and added 10 to the velocity the press had zeroed
C6_Witness ==
  /\ ev = [type |-> "wheel", x |-> 100]
  /\ isDragging
  /\ TouchActive
  /\ velocity = RatInt(10)

(* ------------------------------- C7 ----------------------------------- *)

TouchTypes == {"touchstart", "touchmove", "touchend"}

\* C7: touchstart records its X, touchend clears the record and nothing
\* else sets or clears it; a touchmove with a record subtracts (X - recorded
\* X) from position and records X, a touchmove without one changes nothing;
\* no touch handler changes velocity; and the touchmoves of the gesture in
\* progress have changed position in total by -(last X - touchstart X).
C7_TouchTracking ==
  /\ [](TouchActive => touchMoved = RatInt(-(touchStartX[1] - touchOriginX)))
  /\ [][/\ Handled("touchstart")
             => (touchStartX' = Some(ev'.x) /\ position' = position)
        /\ Handled("touchend") => (touchStartX' = Null /\ position' = position)
        /\ (Handled("touchmove") /\ TouchActive)
             => /\ position' = RatSub(position, RatInt(ev'.x - touchStartX[1]))
                /\ touchStartX' = Some(ev'.x)
        /\ (Handled("touchmove") /\ ~TouchActive)
             => (position' = position /\ touchStartX' = Null)
        /\ (\E t \in TouchTypes : Handled(t)) => velocity' = velocity
        /\ (touchStartX' # touchStartX) => \E t \in TouchTypes : Handled(t)]_vars

\* a touchmove from the touchstart X=100 to X=200 moved position by -100
C7_Witness ==
  /\ ev = [type |-> "touchmove", x |-> 200]
  /\ TouchActive
  /\ touchOriginX = 100
  /\ touchMoved = RatInt(-100)
  /\ position = RatInt(-100)

(* ------------------------------- C8 ----------------------------------- *)

\* C8: the press records its X as the last X; a mousemove during a drag
\* subtracts 0.8 * (X - last X) from position and records X; a mousemove
\* with no drag active changes no program variable; and the mousemoves of
\* the drag in progress have changed position in total by
\* -0.8 * (last X - press X).
C8_MouseDragTracking ==
  /\ [](isDragging => dragMoved = Rat(-8 * (lastX - dragStartX), 10))
  /\ [][/\ Handled("mousedown") => lastX' = ev'.x
        /\ (Handled("mousemove") /\ isDragging)
             => /\ position' = RatSub(position, Rat(8 * (ev'.x - lastX), 10))
                /\ lastX' = ev'.x
        /\ (Handled("mousemove") /\ ~isDragging)
             => UNCHANGED <<motion, geometry, touch, drag, clock, frame>>
        /\ ~(Handled("mousemove") \/ Handled("mousedown")) => lastX' = lastX]_vars

\* a mousemove from the press X=100 to X=200 moved position by -80
C8_Witness ==
  /\ ev = [type |-> "mousemove", x |-> 200]
  /\ isDragging
  /\ dragStartX = 100
  /\ dragMoved = RatInt(-80)
  /\ position = RatInt(-80)

(* ------------------------------- C9 ----------------------------------- *)

\* C9 as claimed: a frame tick that starts with velocity 0 leaves position
\* and smoothPos as they were.
C9_RestKeepsBoth ==
  [][(TickStep /\ velocity = Zero)
       => (position' = position /\ smoothPos' = smoothPos)]_vars

\* C9 as amended: a frame tick that starts with velocity 0 leaves position
\* and velocity as they were; smoothPos moves by 0.14 of its gap to
\* position, so it keeps its value exactly when it already equals position.
C9_RestKeepsPosition ==
  [][(TickStep /\ velocity = Zero)
       => /\ position' = position
          /\ velocity' = Zero
          /\ smoothPos' = RatAdd(smoothPos, RatMul(RatSub(position, smoothPos), Rat(14, 100)))
          /\ (smoothPos' = smoothPos) <=> (smoothPos = position)]_vars

\* a second frame tick at rest after a touchmove had moved position to
\* -100: position stayed, smoothPos went on from -14 to -26.04
C9_Witness ==
  /\ ev.type = "tick"
  /\ ticks = 2
  /\ velocity = Zero
  /\ sinceInput.v0 = Zero
  /\ position = RatInt(-100)
  /\ smoothPos = Rat(-2604, 100)

(* ------------------------------- C10 ---------------------------------- *)

RECURSIVE RatPow(_, _)
RatPow(a, k) == IF k = 0 THEN RatInt(1) ELSE RatMul(a, RatPow(a, k - 1))

\* start position + v0 / (1 - 0.91)
MomentumLimit == RatAdd(sinceInput.p0, RatMul(sinceInput.v0, Rat(100, 9)))

\* C10: k frame ticks after the last input left velocity v0 # 0 with no
\* mouse drag active, velocity = v0 * 0.91^k (the sign of v0, magnitude
\* decaying geometrically) and position = p0 + v0 * (1 - 0.91^k) / 0.09,
\* strictly on the near side of the limit p0 + v0 / 0.09; and every such
\* tick moves position in the direction of v0, closer to the limit, and
\* shrinks |velocity|.
C10_MomentumConverges ==
  /\ []((~isDragging /\ sinceInput.v0 # Zero)
          => LET f == RatPow(Rat(91, 100), sinceInput.k)
             IN  /\ velocity = RatMul(sinceInput.v0, f)
                 /\ RatSign(velocity) = RatSign(sinceInput.v0)
                 /\ position =
                      RatAdd(sinceInput.p0,
                             RatMul(sinceInput.v0,
                                    RatMul(RatSub(RatInt(1), f), Rat(100, 9))))
                 /\ RatSign(RatSub(MomentumLimit, position)) = RatSign(sinceInput.v0))
  /\ [][(TickStep /\ ~isDragging /\ sinceInput.v0 # Zero)
          => /\ RatSign(RatSub(position', position)) = RatSign(sinceInput.v0)
             /\ RatLt(RatAbs(velocity'), RatAbs(velocity))
             /\ RatLt(RatAbs(RatSub(MomentumLimit, position')),
                      RatAbs(RatSub(MomentumLimit, position)))]_vars

\* two frame ticks after a wheel impulse of 10: velocity 8.281 and position
\* 19.1, short of the limit 111.1...
C10_Witness ==
  /\ ev.type = "tick"
  /\ ~isDragging
  /\ sinceInput = [v0 |-> RatInt(10), p0 |-> Zero, k |-> 2]
  /\ velocity = Rat(8281, 1000)
  /\ position = Rat(191, 10)

(* ------------------------------- C11 ---------------------------------- *)

\* a lies between b and c, ends included
Between(a, b, c) ==
  \/ RatLe(b, a) /\ RatLe(a, c)
  \/ RatLe(c, a) /\ RatLe(a, b)

\* C11: only the frame tick changes smoothPos, and a tick moves it by 0.14
\* of its gap to the position of that tick, which leaves it between its
\* previous value and position, short of position unless it was there.
C11_SmoothNeverJumps ==
  [][/\ (smoothPos' # smoothPos) => TickStep
     /\ TickStep
          => /\ RatSub(smoothPos', smoothPos) =
                  RatMul(RatSub(position', smoothPos), Rat(14, 100))
             /\ Between(smoothPos', smoothPos, position')
             /\ (smoothPos # position') => (smoothPos' # position')]_vars

\* the second tick after a wheel impulse of 10: position 19.1, smoothPos
\* moved from 1.4 to 3.878
C11_Witness ==
  /\ ev.type = "tick"
  /\ ticks = 2
  /\ position = Rat(191, 10)
  /\ smoothPos = Rat(1939, 500)

(* ------------------------------- C12 ---------------------------------- *)

\* lo <= a < hi
InHalfOpen(a, lo, hi) == RatLe(lo, a) /\ RatLt(a, hi)

\* the frame callback was the last handler to run, so the geometry is the
\* one the last frame was computed from
FrameIsCurrent == ev.type = "tick"

\* the cards, 1-based
Cards == 1..cardCount

\* C12: wrap maps every input into [0, totalWidth), negative inputs and
\* multiples of totalWidth included, so that baseX is in [0, totalWidth)
\* and x in [visibleCenterX - totalWidth / 2, visibleCenterX + totalWidth / 2)
\* for every card and every smoothPos, negative or not.
C12_WrapRange ==
  (placed # Null) =>
    /\ InHalfOpen(placed[1].wrapped, Zero, RatInt(totalWidth))
    /\ placed[1].baseX = placed[1].wrapped
    /\ InHalfOpen(placed[1].baseX, Zero, RatInt(totalWidth))
    /\ InHalfOpen(placed[1].x,
                  RatSub(visibleCenterX, Rat(totalWidth, 2)),
                  RatAdd(visibleCenterX, Rat(totalWidth, 2)))

\* wrap was handed a negative multiple of totalWidth and returned 0: the
\* card sits at the left end of the interval
C12_Witness ==
  /\ placed # Null
  /\ placed[1].input.num < 0
  /\ placed[1].input.num % totalWidth = 0
  /\ placed[1].wrapped = Zero
  /\ placed[1].x = RatSub(visibleCenterX, Rat(totalWidth, 2))

\* Exact rationals stand for the script's doubles, which agree with them
\* up to rounding unless the rounding crosses wrap's jump.  No frame of
\* Spec or SpecVisual is on the jump: a card has baseX = 0 only while
\* smoothPos is still the exact 0 it started as.
OffTheSeam ==
  \A i \in DOMAIN styles : (styles[i].baseX = Zero) => (smoothPos = Zero)

(* ------------------------------- C13 ---------------------------------- *)

\* lo <= a <= hi
InClosed(a, lo, hi) == RatLe(lo, a) /\ RatLe(a, hi)

\* the cards the last frame put on whole pixels: their properties can be
\* evaluated exactly
WholePixel == {i \in DOMAIN styles : styles[i].x.den = 1}

\* C13: for every card of every frame, the eased ratio t is in [0, 1],
\* scale in [0.65, 1], brightness in [0.6, 1] and blur in [0, 6].
C13_VisualRanges ==
  \A i \in WholePixel :
    LET set == CardStyle(styles[i])
    IN  /\ InClosed(set.t, Zero, RatInt(1))
        /\ InClosed(set.scale, Rat(65, 100), RatInt(1))
        /\ InClosed(set.brightness, Rat(6, 10), RatInt(1))
        /\ InClosed(set.blur, Zero, RatInt(6))

\* a frame with one card beyond the clamp distance (t = 1, every channel at
\* its far end) and another on the ease-out half (1/2 < t < 1)
C13_Witness ==
  /\ \E i \in WholePixel :
       /\ CardStyle(styles[i]).t = RatInt(1)
       /\ CardStyle(styles[i]).scale = Rat(65, 100)
       /\ CardStyle(styles[i]).brightness = Rat(6, 10)
       /\ CardStyle(styles[i]).blur = RatInt(6)
  /\ \E i \in WholePixel :
       /\ RatLt(Rat(1, 2), CardStyle(styles[i]).t)
       /\ RatLt(CardStyle(styles[i]).t, RatInt(1))
       /\ RatLt(CardStyle(styles[i]).scale, RatInt(1))

(* ------------------------------- C14 ---------------------------------- *)

\* the first third of the track
FirstCopy == SubSeq(track, 1, Len(track) \div 3)

\* C14: the track is 3 consecutive copies of the original cards in their
\* original order, cardCount = 3 * originalCount, and in every state, after
\* a resize too, totalWidth = itemW * cardCount, which is positive when at
\* least one card exists.  The script does not keep the last part: itemW is
\* whatever getItemWidth measures, and a first card laid out with no width
\* gives totalWidth = 0 with three cards on the track.
C14_TrackGeometry ==
  /\ FirstCopy = Originals(Len(FirstCopy))
  /\ track = FirstCopy \o FirstCopy \o FirstCopy
  /\ cardCount = 3 * Len(FirstCopy)
  /\ cardCount = Len(track)
  /\ totalWidth = itemW * cardCount
  /\ cardCount > 0 => totalWidth > 0

\* the failing input: one original card, loaded at a window width where
\* it is not displayed.  Three cards exist, totalWidth is 0, and the first
\* frame sets x = NaN on every card
C14_Witness ==
  /\ ev.type = "tick"
  /\ track = <<1, 1, 1>>
  /\ cardCount = 3
  /\ itemW = 0
  /\ totalWidth = 0
  /\ frame = <<NaN, NaN, NaN>>

(* ------------------------------- C15 ---------------------------------- *)

\* C15: on a page whose markup holds zero cards the render loop is never
\* started: no frame callback has run and no transform has been emitted.
C15_EmptyTrackNeverRenders ==
  (cardCount = 0) =>
    /\ ~started
    /\ ticks = 0
    /\ ev.type # "tick"
    /\ frame = <<>>
    /\ styles = <<>>

\* the script has run on a page with an empty track
C15_Witness ==
  /\ track = <<>>
  /\ cardCount = 0
  /\ ~started
  /\ ev.type = "init"

(* ------------------------------- C16 ---------------------------------- *)

\* C16: a resize sets itemW to the laid-out card width, totalWidth to
\* itemW * cardCount and visibleCenterX to half the new window width, and
\* leaves position, velocity, smoothPos, the dragging flag, the touch
\* reference, the rest of the drag session and the card count as they were,
\* in whatever state it arrives.
C16_ResizeRecomputesGeometryOnly ==
  [][Handled("resize")
       => /\ innerWidth' = ev'.x
          /\ itemW' = CardWidthAt(ev'.x)
          /\ totalWidth' = itemW' * cardCount
          /\ visibleCenterX' = Rat(ev'.x, 2)
          /\ UNCHANGED <<position, velocity, smoothPos>>
          /\ UNCHANGED <<isDragging, lastX, dragStartX, dragStartTime>>
          /\ UNCHANGED <<touchStartX, cardCount, track>>]_vars

\* the window went from 1200 to 800 wide in the middle of a mouse drag and
\* a touch gesture: the frame on screen is still the one painted for the
\* wide window (first card at -360 + 600), the geometry is the narrow one
C16_Witness ==
  /\ ev.type = "resize"
  /\ isDragging
  /\ TouchActive
  /\ frame # <<>>
  /\ frame[1] = RatInt(240)
  /\ innerWidth = 800
  /\ itemW = 640
  /\ totalWidth = 1920
  /\ visibleCenterX = RatInt(400)

(* ------------------------------- C17 ---------------------------------- *)

\* card i was painted with its centre left of / on / right of the centre
\* of the window
PaintedLeft(i) == RatLt(styles[i].cardCenterX, styles[i].visibleCenterX)
PaintedCentred(i) == styles[i].cardCenterX = styles[i].visibleCenterX
PaintedRight(i) == RatLt(styles[i].visibleCenterX, styles[i].cardCenterX)

\* C17: in every frame a card centred exactly on visibleCenterX has t = 0,
\* scale = 1 and both rotations 0; a card left of it has rotationY >= 0 and
\* rotationX <= 0, a card right of it rotationY <= 0 and rotationX >= 0; and
\* the rotations are at most 20 and 6 degrees in magnitude.
C17_FacingTheCentre ==
  \A i \in WholePixel :
    LET set == CardStyle(styles[i])
    IN  /\ PaintedCentred(i)
             => /\ set.t = Zero
                /\ set.scale = RatInt(1)
                /\ set.rotationY = Zero
                /\ set.rotationX = Zero
        /\ PaintedLeft(i)
             => /\ RatLe(Zero, set.rotationY)
                /\ RatLe(set.rotationX, Zero)
        /\ PaintedRight(i)
             => /\ RatLe(set.rotationY, Zero)
                /\ RatLe(Zero, set.rotationX)
        /\ RatLe(RatAbs(set.rotationY), RatInt(20))
        /\ RatLe(RatAbs(set.rotationX), RatInt(6))

\* a frame with one card exactly centred and flat, one left of the centre
\* tilted (+, -) and one right of it tilted (-, +)
C17_Witness ==
  /\ \E i \in WholePixel :
       /\ PaintedCentred(i)
       /\ CardStyle(styles[i]).scale = RatInt(1)
       /\ CardStyle(styles[i]).rotationY = Zero
  /\ \E i \in WholePixel :
       /\ PaintedLeft(i)
       /\ RatLt(Zero, CardStyle(styles[i]).rotationY)
       /\ RatLt(CardStyle(styles[i]).rotationX, Zero)
  /\ \E i \in WholePixel :
       /\ PaintedRight(i)
       /\ RatLt(CardStyle(styles[i]).rotationY, Zero)
       /\ RatLt(Zero, CardStyle(styles[i]).rotationX)

(* ------------------------------- C18 ---------------------------------- *)

\* a and b differ by a whole number of m
Congruent(a, b, m) == RatDiv(RatSub(a, b), RatInt(m)).den = 1

\* where card i (1-based) lies before wrapping, seen from one snapshot of
\* smoothPos, itemW, totalWidth and visibleCenterX
Unwrapped(i, s, w, tw, c) ==
  RatAdd(RatSub(RatSub(RatInt((i - 1) * w), s), Rat(tw, 2)), c)

\* C18: handlers and the frame callback run one at a time.  No listener
\* changes the transforms on screen; a frame callback places every card
\* from one and the same smoothPos, itemW, totalWidth and visibleCenterX,
\* and that smoothPos is computed from the position and velocity the
\* listeners left behind, so their change shows in the next frame.
C18_FrameAtomicity ==
  [][/\ (frame' # frame \/ styles' # styles) => TickStep
     /\ TickStep
          => /\ UNCHANGED <<itemW, totalWidth, visibleCenterX, cardCount>>
             /\ position' = TickPosition(position, velocity, isDragging)
             /\ smoothPos' = Lerp(smoothPos, position')
             /\ DOMAIN frame' = Cards
             /\ DOMAIN styles' = Cards
             /\ \A i \in Cards :
                  /\ styles'[i].x = frame'[i]
                  /\ styles'[i].cardCenterX = RatAdd(frame'[i], Rat(itemW, 2))
                  /\ styles'[i].visibleCenterX = visibleCenterX
                  /\ styles'[i].innerWidth = innerWidth
             /\ \A i \in Cards :
                  /\ Congruent(frame'[i],
                               Unwrapped(i, smoothPos', itemW, totalWidth,
                                         visibleCenterX),
                               totalWidth)
                  /\ InHalfOpen(frame'[i],
                                RatSub(visibleCenterX, Rat(totalWidth, 2)),
                                RatAdd(visibleCenterX, Rat(totalWidth, 2)))]_vars

\* a frame, then a touch drag of 100 to the right, then the next frame: the
\* cards have moved by 14 with smoothPos, all three from the same snapshot
C18_Witness ==
  /\ ev.type = "tick"
  /\ ticks = 2
  /\ sinceInput.k = 1
  /\ position = RatInt(-100)
  /\ smoothPos = RatInt(-14)
  /\ cardCount = 3
  /\ itemW = 240
  /\ frame = <<RatInt(254), RatInt(494), RatInt(734)>>

(* ------------------------------- C19 ---------------------------------- *)

\* C19: a mouse press enters the dragging state and sets velocity to 0
\* whatever it was, leaving position and smoothPos alone; isDragging holds
\* in exactly the states after a press with no release since; every release
\* leaves the dragging state, and one that comes no later than the press
\* on the clock leaves velocity as it was; a release with no drag active
\* changes nothing of the program's state.
C19_DragLifecycle ==
  /\ [](isDragging = pressed)
  /\ [][/\ Handled("mousedown")
             => /\ isDragging'
                /\ velocity' = Zero
                /\ UNCHANGED <<position, smoothPos>>
        /\ Handled("mouseup")
             => /\ ~isDragging'
                /\ (isDragging /\ clock' <= dragStartTime)
                     => UNCHANGED velocity
                /\ ~isDragging
                     => UNCHANGED <<geometry, motion, touch, drag, frame,
                                    styles, startup>>]_vars

\* a wheel impulse of 10, one frame (position 10, velocity 9.1), then a
\* press: dragging, velocity 0, position and smoothPos as the frame left them
C19_Witness ==
  /\ ev.type = "mousedown"
  /\ isDragging
  /\ pressed
  /\ velocity = Zero
  /\ position = RatInt(10)
  /\ smoothPos = Rat(14, 10)

(* ------------------------------- C20 ---------------------------------- *)

\* the card after card i, going round
NextCard(i) == (i % cardCount) + 1

\* the cards whose baseX lies in the k-th stretch of width itemW
InSlot(k) ==
  {i \in Cards : InHalfOpen(styles[i].baseX, RatInt(k * itemW),
                            RatInt((k + 1) * itemW))}

\* C20: in every frame with totalWidth > 0 the baseX of the cards are
\* pairwise distinct, each card's successor lies itemW further modulo
\* totalWidth, no two cards share a screen x, and the cards tile the
\* interval of width totalWidth: each stretch of width itemW holds
\* exactly one card.
C20_CardsTileTheTrack ==
  (FrameIsCurrent /\ styles # <<>> /\ totalWidth > 0) =>
    /\ \A i, k \in Cards :
         (i # k) => /\ styles[i].baseX # styles[k].baseX
                    /\ styles[i].x # styles[k].x
    /\ \A i \in Cards :
         /\ Congruent(RatSub(styles[NextCard(i)].baseX, styles[i].baseX),
                      RatInt(itemW), totalWidth)
         /\ styles[i].x = RatAdd(RatSub(styles[i].baseX, Rat(totalWidth, 2)),
                                 visibleCenterX)
    /\ \A k \in 0..(cardCount - 1) : Cardinality(InSlot(k)) = 1

\* a frame of six cards after a scroll: the first card has wrapped round to
\* the right of the second, and is not on a slot boundary
C20_Witness ==
  /\ FrameIsCurrent
  /\ styles # <<>>
  /\ cardCount = 6
  /\ smoothPos # Zero
  /\ RatLt(styles[2].baseX, styles[1].baseX)
  /\ ~Congruent(styles[1].baseX, Zero, itemW)

====
